---- MODULE Spec2Model ----
(***************************************************************************)
(* Model of librespot's identifier and URI codec (core/src/spotify_id.rs,  *)
(* core/src/file_id.rs).                                                   *)
(*                                                                         *)
(* A Rust string is modelled as the sequence of its UTF-8 bytes (integers  *)
(* 0..255), so that splitting on ':', length checks, base62/base16         *)
(* decoding and percent coding are computed the way the code computes      *)
(* them.  A 128-bit id is the sequence of its 16 big-endian bytes; an      *)
(* unsigned integer (usize, u32) is the sequence of its decimal digits     *)
(* without leading zeros.  A Result is Ok(v), Err(e) or Panic.             *)
(***************************************************************************)
EXTENDS Integers, Sequences, FiniteSets, TLC

VARIABLES
    pc,        \* position in the pipeline: which operation has been applied
    segs,      \* the colon-free segments the input string was assembled from
    src,       \* the input string handed to try_from / from_base16
    res,       \* the Result of try_from(src) / from_base16(src)
    value,     \* a SpotifyUri value built by the caller through the enum
    text,      \* the string produced by Display (to_string)
    back,      \* the Result of try_from(text)
    playable   \* the answer of is_playable()

vars == <<pc, segs, src, res, value, text, back, playable>>

----------------------------------------------------------------------------
(* Results and errors *)

Ok(v) == [st |-> "ok", val |-> v]

Err(e) == [st |-> "err", err |-> e]

Panic == [st |-> "panic"]

NoRes == [st |-> "none"]

IsOk(r) == r.st = "ok"

IsErr(r) == r.st = "err"

invalid_id_size(k, s) == [kind |-> "InvalidIdSize", size |-> k, s |-> s]

invalid_id_bytes(b) == [kind |-> "InvalidIdBytes", bytes |-> b]

invalid_format_because(reason, s) == [kind |-> "InvalidFormat", reason |-> reason, s |-> s]

invalid_scheme(s) == [kind |-> "InvalidScheme", s |-> s]

None == [some |-> FALSE]

Some(s) == [some |-> TRUE, val |-> s]

----------------------------------------------------------------------------
(* Bytes and fixed words *)

Colon == 58

Plus == 43

Space == 32

Percent == 37

S_spotify == <<115, 112, 111, 116, 105, 102, 121>>

S_user == <<117, 115, 101, 114>>

S_station == <<115, 116, 97, 116, 105, 111, 110>>

S_meta == <<109, 101, 116, 97>>

S_local == <<108, 111, 99, 97, 108>>

S_page == <<112, 97, 103, 101>>

S_album == <<97, 108, 98, 117, 109>>

S_artist == <<97, 114, 116, 105, 115, 116>>

S_episode == <<101, 112, 105, 115, 111, 100, 101>>

S_playlist == <<112, 108, 97, 121, 108, 105, 115, 116>>

S_show == <<115, 104, 111, 119>>

S_track == <<116, 114, 97, 99, 107>>

IsDigit(c) == c \in 48..57

RECURSIVE Rep(_, _)
Rep(c, n) == IF n = 0 THEN <<>> ELSE <<c>> \o Rep(c, n - 1)

\* str::split(':'): the segments between colons; an empty string gives one
\* empty segment, a trailing colon a trailing empty segment.
RECURSIVE SplitFrom(_, _, _)
SplitFrom(s, i, cur) ==
    IF i > Len(s) THEN <<cur>>
    ELSE IF s[i] = Colon THEN <<cur>> \o SplitFrom(s, i + 1, <<>>)
    ELSE SplitFrom(s, i + 1, Append(cur, s[i]))

Split(s) == SplitFrom(s, 1, <<>>)

----------------------------------------------------------------------------
(* SpotifyItemType *)

SpotifyItemType == {"Album", "Artist", "Episode", "Playlist", "Show", "Track"}

ItemTypeTryFrom(v) ==
    CASE v = S_album -> Ok("Album")
      [] v = S_artist -> Ok("Artist")
      [] v = S_episode -> Ok("Episode")
      [] v = S_playlist -> Ok("Playlist")
      [] v = S_show -> Ok("Show")
      [] v = S_track -> Ok("Track")
      [] OTHER -> Err(v)

ItemTypeInto(t) ==
    CASE t = "Album" -> S_album
      [] t = "Artist" -> S_artist
      [] t = "Episode" -> S_episode
      [] t = "Playlist" -> S_playlist
      [] t = "Show" -> S_show
      [] t = "Track" -> S_track

----------------------------------------------------------------------------
(* SpotifyId: a u128 as its 16 big-endian bytes *)

SIZE == 16

SIZE_BASE16 == 32

SIZE_BASE62 == 22

ZeroId == [i \in 1..SIZE |-> 0]

\* buf * m + a over the big-endian bytes; carry is what does not fit.
RECURSIVE MulAddFrom(_, _, _, _)
MulAddFrom(buf, i, m, carry) ==
    IF i = 0 THEN [buf |-> buf, carry |-> carry]
    ELSE LET t == buf[i] * m + carry
         IN  MulAddFrom([buf EXCEPT ![i] = t % 256], i - 1, m, t \div 256)

MulAdd(buf, m, a) == MulAddFrom(buf, Len(buf), m, a)

\* buf divided by d: quotient bytes and remainder.
RECURSIVE DivModFrom(_, _, _, _)
DivModFrom(buf, i, d, rem) ==
    IF i > Len(buf) THEN [buf |-> buf, rem |-> rem]
    ELSE LET t == rem * 256 + buf[i]
         IN  DivModFrom([buf EXCEPT ![i] = t \div d], i + 1, d, t % d)

DivMod(buf, d) == DivModFrom(buf, 1, d, 0)

\* The base62 crate's "alternative" alphabet: 0-9, a-z, A-Z.
Base62Digit(c) ==
    IF c \in 48..57 THEN c - 48
    ELSE IF c \in 97..122 THEN c - 97 + 10
    ELSE IF c \in 65..90 THEN c - 65 + 36
    ELSE -1

Base62Char(d) ==
    IF d < 10 THEN 48 + d
    ELSE IF d < 36 THEN 97 + (d - 10)
    ELSE 65 + (d - 36)

\* base62::decode_alternative: fails on an empty input, on a byte outside
\* the alphabet and on a value that does not fit in 128 bits.
RECURSIVE DecodeBase62From(_, _, _)
DecodeBase62From(s, i, acc) ==
    IF i > Len(s) THEN Ok(acc)
    ELSE IF Base62Digit(s[i]) < 0 THEN Err("base62 decode error")
    ELSE LET r == MulAdd(acc, 62, Base62Digit(s[i]))
         IN  IF r.carry # 0 THEN Err("base62 decode error")
             ELSE DecodeBase62From(s, i + 1, r.buf)

decode_alternative(s) ==
    IF s = <<>> THEN Err("base62 decode error") ELSE DecodeBase62From(s, 1, ZeroId)

\* base62::encode_alternative: the digits of the number, most significant
\* first, as many as the number has (one digit for zero); no padding.
RECURSIVE EncodeBase62Digits(_)
EncodeBase62Digits(buf) ==
    LET r == DivMod(buf, 62)
    IN  IF r.buf = ZeroId THEN <<Base62Char(r.rem)>>
        ELSE Append(EncodeBase62Digits(r.buf), Base62Char(r.rem))

encode_alternative(id) == EncodeBase62Digits(id)

\* Faulty variant: the input is decoded before its length is looked at.
from_base62_decodefirst(s) ==
    LET d == decode_alternative(s)
    IN  IF ~IsOk(d) THEN Err(invalid_format_because(d.err, s))
        ELSE IF Len(s) # SIZE_BASE62 THEN Err(invalid_id_size(SIZE_BASE62, s))
        ELSE Ok(d.val)

from_base62(s) ==
    IF Len(s) # SIZE_BASE62 THEN Err(invalid_id_size(SIZE_BASE62, s))
    ELSE LET d == decode_alternative(s)
         IN  IF IsOk(d) THEN Ok(d.val) ELSE Err(invalid_format_because(d.err, s))

into_base62(id) == encode_alternative(id)

\* data_encoding HEXLOWER: strict lowercase hex.
HexVal(c) ==
    IF c \in 48..57 THEN c - 48
    ELSE IF c \in 97..102 THEN c - 97 + 10
    ELSE -1

HexLowerChar(d) == IF d < 10 THEN 48 + d ELSE 97 + (d - 10)

IsHexLower(s) == \A i \in 1..Len(s) : HexVal(s[i]) >= 0

\* HEXLOWER.decode_mut(input, &mut output): data_encoding asserts that the
\* output length equals decode_len(input.len()) and panics otherwise, before
\* anything is decoded; a byte that is no lowercase hex digit is an error.
decode_mut(input, outlen) ==
    IF Len(input) % 2 # 0 \/ Len(input) \div 2 # outlen THEN Panic
    ELSE IF ~IsHexLower(input) THEN Err("hex decode error")
    ELSE Ok([len |-> outlen,
             buf |-> [i \in 1..outlen |-> HexVal(input[2 * i - 1]) * 16 + HexVal(input[2 * i])]])

from_base16(s) ==
    LET r == decode_mut(s, SIZE)
    IN  IF r.st = "panic" THEN Panic
        ELSE IF IsOk(r) /\ r.val.len = SIZE THEN Ok(r.val.buf)
        ELSE IF IsOk(r) THEN Err(invalid_id_size(SIZE_BASE16, s))
        ELSE Err(invalid_format_because(r.err, s))

into_base16(id) ==
    [i \in 1..(2 * SIZE) |->
        IF i % 2 = 1 THEN HexLowerChar(id[(i + 1) \div 2] \div 16)
        ELSE HexLowerChar(id[i \div 2] % 16)]

\* Faulty variant: the bytes are read least significant first.
RECURSIVE FromLeBytesFrom(_, _, _)
FromLeBytesFrom(b, i, acc) ==
    IF i = 0 THEN acc
    ELSE FromLeBytesFrom(b, i - 1, MulAdd(acc, 256, b[i]).buf)

from_le_bytes(b) == FromLeBytesFrom(b, Len(b), ZeroId)

\* u128::from_be_bytes: the number whose most significant byte comes first.
RECURSIVE FromBeBytesFrom(_, _, _)
FromBeBytesFrom(b, i, acc) ==
    IF i > Len(b) THEN acc
    ELSE FromBeBytesFrom(b, i + 1, MulAdd(acc, 256, b[i]).buf)

from_be_bytes(b) == FromBeBytesFrom(b, 1, ZeroId)

\* u128::to_be_bytes: the 16 base-256 digits of the number, most significant
\* first.
RECURSIVE ToBeBytesFrom(_, _, _)
ToBeBytesFrom(v, i, out) ==
    IF i = 0 THEN out
    ELSE LET r == DivMod(v, 256)
         IN  ToBeBytesFrom(r.buf, i - 1, [out EXCEPT ![i] = r.rem])

to_be_bytes(v) == ToBeBytesFrom(v, SIZE, ZeroId)

\* src.try_into() to [u8; 16] succeeds exactly for a slice of 16 bytes.
from_buf(s) ==
    IF Len(s) = SIZE THEN Ok(from_be_bytes(s)) ELSE Err(invalid_id_bytes(s))

into_buf(id) == to_be_bytes(id)

----------------------------------------------------------------------------
(* FileId: 20 raw bytes (file_id.rs) *)

FILE_ID_SIZE == 20

FileId(bytes) == [file_id |-> bytes]

\* <[u8]>::clone_from_slice panics unless both slices have the same length.
clone_from_slice(dst, s) == IF Len(dst) # Len(s) THEN Panic ELSE Ok(s)

from_raw(s) ==
    LET dst == clone_from_slice([i \in 1..FILE_ID_SIZE |-> 0], s)
    IN  IF IsOk(dst) THEN Ok(FileId(dst.val)) ELSE Panic

\* impl From<&[u8]> for FileId
file_id_from(s) == from_raw(s)

file_id_into_base16(f) ==
    [i \in 1..(2 * Len(f.file_id)) |->
        IF i % 2 = 1 THEN HexLowerChar(f.file_id[(i + 1) \div 2] \div 16)
        ELSE HexLowerChar(f.file_id[i \div 2] % 16)]

----------------------------------------------------------------------------
(* Unsigned integers: str::parse::<usize>() and str::parse::<u32>() *)

\* usize::MAX on a 64-bit target, as decimal digits.
USIZE_MAX == <<1, 8, 4, 4, 6, 7, 4, 4, 0, 7, 3, 7, 0, 9, 5, 5, 1, 6, 1, 5>>

\* u32::MAX as decimal digits.
U32_MAX == <<4, 2, 9, 4, 9, 6, 7, 2, 9, 5>>

RECURSIVE DigitsGreaterFrom(_, _, _)
DigitsGreaterFrom(a, b, i) ==
    IF i > Len(a) THEN FALSE
    ELSE IF a[i] # b[i] THEN a[i] > b[i]
    ELSE DigitsGreaterFrom(a, b, i + 1)

DigitsGreater(a, b) ==
    \/ Len(a) > Len(b)
    \/ Len(a) = Len(b) /\ DigitsGreaterFrom(a, b, 1)

\* The digit loop of from_str_radix: the first byte that is no digit, or the
\* first step at which the value passes max, ends the parse.
RECURSIVE ParseDigitsFrom(_, _, _, _)
ParseDigitsFrom(s, i, acc, max) ==
    IF i > Len(s) THEN Ok(acc)
    ELSE IF ~IsDigit(s[i]) THEN Err("invalid digit found in string")
    ELSE LET d == s[i] - 48
             next == IF acc = <<0>> THEN <<d>> ELSE Append(acc, d)
         IN  IF DigitsGreater(next, max)
             THEN Err("number too large to fit in target type")
             ELSE ParseDigitsFrom(s, i + 1, next, max)

ParseUnsigned(s, max) ==
    IF s = <<>> THEN Err("cannot parse integer from empty string")
    ELSE IF Len(s) = 1 /\ s[1] \in {43, 45} THEN Err("invalid digit found in string")
    ELSE IF s[1] = Plus THEN ParseDigitsFrom(s, 2, <<0>>, max)
    ELSE ParseDigitsFrom(s, 1, <<0>>, max)

\* Integer to_string(): the decimal digits.
NumToString(n) == [i \in 1..Len(n) |-> 48 + n[i]]

----------------------------------------------------------------------------
(* The percent/plus codec of local items *)

HexAnyVal(c) ==
    IF c \in 48..57 THEN c - 48
    ELSE IF c \in 97..102 THEN c - 97 + 10
    ELSE IF c \in 65..70 THEN c - 65 + 10
    ELSE -1

HexUpperChar(d) == IF d < 10 THEN 48 + d ELSE 65 + (d - 10)

\* percent_encoding::percent_decode: %XY with two hex digits is one byte,
\* any other '%' stays as it is.
RECURSIVE PercentDecodeFrom(_, _)
PercentDecodeFrom(s, i) ==
    IF i > Len(s) THEN <<>>
    ELSE IF /\ s[i] = Percent
            /\ i + 2 <= Len(s)
            /\ HexAnyVal(s[i + 1]) >= 0
            /\ HexAnyVal(s[i + 2]) >= 0
         THEN <<HexAnyVal(s[i + 1]) * 16 + HexAnyVal(s[i + 2])>> \o PercentDecodeFrom(s, i + 3)
         ELSE <<s[i]>> \o PercentDecodeFrom(s, i + 1)

percent_decode(s) == PercentDecodeFrom(s, 1)

IsCont(s, i) == i <= Len(s) /\ s[i] \in 128..191

\* str::from_utf8: well-formed UTF-8 only (no overlong forms, no surrogates,
\* nothing above U+10FFFF).
RECURSIVE Utf8ValidFrom(_, _)
Utf8ValidFrom(s, i) ==
    IF i > Len(s) THEN TRUE
    ELSE LET b == s[i]
         IN  IF b < 128 THEN Utf8ValidFrom(s, i + 1)
             ELSE IF b \in 194..223
                  THEN IsCont(s, i + 1) /\ Utf8ValidFrom(s, i + 2)
             ELSE IF b \in 224..239
                  THEN /\ IsCont(s, i + 1)
                       /\ IsCont(s, i + 2)
                       /\ (b = 224 => s[i + 1] >= 160)
                       /\ (b = 237 => s[i + 1] <= 159)
                       /\ Utf8ValidFrom(s, i + 3)
             ELSE IF b \in 240..244
                  THEN /\ IsCont(s, i + 1)
                       /\ IsCont(s, i + 2)
                       /\ IsCont(s, i + 3)
                       /\ (b = 240 => s[i + 1] >= 144)
                       /\ (b = 244 => s[i + 1] <= 143)
                       /\ Utf8ValidFrom(s, i + 4)
             ELSE FALSE

Utf8Valid(s) == Utf8ValidFrom(s, 1)

url_decode(source, s) ==
    LET bytes == [i \in 1..Len(s) |-> IF s[i] = Plus THEN Space ELSE s[i]]
        dec == percent_decode(bytes)
    IN  IF Utf8Valid(dec) THEN Ok(dec)
        ELSE Err(invalid_format_because("invalid utf-8 sequence", source))

\* Faulty variant: '+' is left out of the set, so a literal plus is written
\* bare.
InSpotifyPctSet_noplus(b) == b < 32 \/ b = 127 \/ b \in {Colon, Percent} \/ b >= 128

\* CONTROLS (0x00-0x1f, 0x7f) plus ':', '+' and '%'; utf8_percent_encode
\* also encodes every byte that is not ASCII.
InSpotifyPctSet(b) == b < 32 \/ b = 127 \/ b \in {Colon, Plus, Percent} \/ b >= 128

RECURSIVE Utf8PercentEncodeFrom(_, _)
Utf8PercentEncodeFrom(s, i) ==
    IF i > Len(s) THEN <<>>
    ELSE (IF InSpotifyPctSet(s[i])
          THEN <<Percent, HexUpperChar(s[i] \div 16), HexUpperChar(s[i] % 16)>>
          ELSE <<s[i]>>) \o Utf8PercentEncodeFrom(s, i + 1)

url_encode(s) ==
    LET enc == Utf8PercentEncodeFrom(s, 1)
    IN  [i \in 1..Len(enc) |-> IF enc[i] = Space THEN Plus ELSE enc[i]]

----------------------------------------------------------------------------
(* SpotifyUri values *)

SpotifyItem(t, id) == [item_type |-> t, id |-> id]

Item(item) == [tag |-> "Item", item |-> item]

UserItem(user, item) == [tag |-> "UserItem", user |-> user, item |-> item]

Station(item) == [tag |-> "Station", item |-> item]

Meta(m) == [tag |-> "Meta", meta |-> m]

Page(n) == [page |-> n]

Local(l) == [tag |-> "Local", localitem |-> l]

SpotifyLocalItem(a, b, t, d) ==
    [artist |-> a, album_title |-> b, track_title |-> t, duration_s |-> d]

Unknown(typ, rest) == [tag |-> "Unknown", typ |-> typ, rest |-> rest]

NoUri == [tag |-> "none"]

ItemIsPlayable(item) ==
    CASE item.item_type \in {"Album", "Artist", "Playlist", "Show"} -> FALSE
      [] item.item_type \in {"Episode", "Track"} -> TRUE

\* Faulty variant: a station answers for the item it wraps.
is_playable_station(u) ==
    CASE u.tag \in {"Item", "UserItem", "Station"} -> ItemIsPlayable(u.item)
      [] u.tag \in {"Meta", "Local", "Unknown"} -> FALSE

is_playable(u) ==
    CASE u.tag = "Item" -> ItemIsPlayable(u.item)
      [] u.tag = "UserItem" -> ItemIsPlayable(u.item)
      [] u.tag \in {"Station", "Meta", "Local", "Unknown"} -> FALSE

----------------------------------------------------------------------------
(* The parser.  parts is the Split of the source; i is the index of the    *)
(* segment the iterator yields next.                                       *)

\* Faulty variant: an absent segment is taken for an empty one.
next_str_from_split_empty(source, parts, i) ==
    IF i <= Len(parts) THEN Ok(parts[i]) ELSE Ok(<<>>)

next_str_from_split(source, parts, i) ==
    IF i <= Len(parts) THEN Ok(parts[i])
    ELSE Err(invalid_format_because("missing part", source))

RECURSIVE JoinFrom(_, _)
JoinFrom(parts, i) ==
    IF i >= Len(parts) THEN parts[i]
    ELSE parts[i] \o <<Colon>> \o JoinFrom(parts, i + 1)

\* Faulty variant: an empty remainder is taken for no remainder.
rest_from_parts_skipempty(parts, i) ==
    IF i <= Len(parts) /\ JoinFrom(parts, i) # <<>> THEN Some(JoinFrom(parts, i)) ELSE None

rest_from_parts(parts, i) ==
    IF i <= Len(parts) THEN Some(JoinFrom(parts, i)) ELSE None

\* Faulty variant: the ':' before the remainder is left out.
str_rest_from_parts_nocolon(parts, i) ==
    LET r == rest_from_parts(parts, i)
    IN  IF r.some THEN r.val ELSE <<>>

str_rest_from_parts(parts, i) ==
    LET r == rest_from_parts(parts, i)
    IN  IF r.some THEN <<Colon>> \o r.val ELSE <<>>

\* The two closures handed to the item sub-parser, by call site.
InjItem == [branch |-> "item"]

InjUser(user) == [branch |-> "user", user |-> user]

InjStation == [branch |-> "station"]

inj1(inj, item) ==
    CASE inj.branch = "item" -> Item(item)
      [] inj.branch = "user" -> UserItem(inj.user, item)
      [] inj.branch = "station" -> Station(item)

\* Faulty variant: the user branch leaves the username out of the remainder.
inj2_dropuser(inj, other, rest) ==
    CASE inj.branch = "item" -> Unknown(other, rest)
      [] inj.branch = "user" ->
            Unknown(S_user, Some(other \o (IF rest.some THEN <<Colon>> \o rest.val ELSE <<>>)))
      [] inj.branch = "station" ->
            Unknown(S_station, Some(other \o (IF rest.some THEN <<Colon>> \o rest.val ELSE <<>>)))

inj2(inj, other, rest) ==
    CASE inj.branch = "item" -> Unknown(other, rest)
      [] inj.branch = "user" ->
            Unknown(S_user, Some(inj.user \o <<Colon>> \o other
                                 \o (IF rest.some THEN <<Colon>> \o rest.val ELSE <<>>)))
      [] inj.branch = "station" ->
            Unknown(S_station, Some(other \o (IF rest.some THEN <<Colon>> \o rest.val ELSE <<>>)))

\* Faulty variant: an id that does not decode degrades to Unknown.
from_src_typ_parts_inj_degrade(source, typ, parts, i, inj) ==
    LET it == ItemTypeTryFrom(typ)
    IN  IF IsOk(it)
        THEN LET id_str == next_str_from_split(source, parts, i)
             IN  IF ~IsOk(id_str) THEN id_str
                 ELSE LET id == from_base62(id_str.val)
                      IN  IF ~IsOk(id) THEN Ok(inj2(inj, typ, rest_from_parts(parts, i)))
                          ELSE IF i + 1 <= Len(parts)
                               THEN Ok(inj2(inj, typ, Some(id_str.val \o <<Colon>> \o parts[i + 1]
                                                           \o str_rest_from_parts(parts, i + 2))))
                               ELSE Ok(inj1(inj, SpotifyItem(it.val, id.val)))
        ELSE Ok(inj2(inj, it.err, rest_from_parts(parts, i)))

from_src_typ_parts_inj(source, typ, parts, i, inj) ==
    LET it == ItemTypeTryFrom(typ)
    IN  IF IsOk(it)
        THEN LET id_str == next_str_from_split(source, parts, i)
             IN  IF ~IsOk(id_str) THEN id_str
                 ELSE LET id == from_base62(id_str.val)
                      IN  IF ~IsOk(id) THEN id
                          ELSE IF i + 1 <= Len(parts)
                               THEN Ok(inj2(inj, typ, Some(id_str.val \o <<Colon>> \o parts[i + 1]
                                                           \o str_rest_from_parts(parts, i + 2))))
                               ELSE Ok(inj1(inj, SpotifyItem(it.val, id.val)))
        ELSE Ok(inj2(inj, it.err, rest_from_parts(parts, i)))

from_src_parts_inj(source, parts, i, inj) ==
    LET typ == next_str_from_split(source, parts, i)
    IN  IF ~IsOk(typ) THEN typ
        ELSE from_src_typ_parts_inj(source, typ.val, parts, i + 1, inj)

\* Faulty variant: a page number that does not parse degrades to Unknown.
meta_from_src_parts_degrade(source, parts, i) ==
    LET kind == next_str_from_split(source, parts, i)
    IN  IF ~IsOk(kind) THEN kind
        ELSE IF kind.val = S_page
        THEN LET num == next_str_from_split(source, parts, i + 1)
             IN  IF ~IsOk(num) THEN num
                 ELSE LET n == ParseUnsigned(num.val, USIZE_MAX)
                      IN  IF ~IsOk(n)
                          THEN Ok(Unknown(S_meta, Some(kind.val \o str_rest_from_parts(parts, i + 1))))
                          ELSE IF i + 2 > Len(parts) THEN Ok(Meta(Page(n.val)))
                          ELSE Ok(Unknown(S_meta,
                                    Some(S_page \o <<Colon>> \o NumToString(n.val) \o <<Colon>>
                                         \o parts[i + 2] \o str_rest_from_parts(parts, i + 3))))
        ELSE Ok(Unknown(S_meta, Some(kind.val \o str_rest_from_parts(parts, i + 1))))

\* Faulty variant: the degraded remainder keeps the number as it was written.
meta_from_src_parts_rawnum(source, parts, i) ==
    LET kind == next_str_from_split(source, parts, i)
    IN  IF ~IsOk(kind) THEN kind
        ELSE IF kind.val = S_page
        THEN LET num == next_str_from_split(source, parts, i + 1)
             IN  IF ~IsOk(num) THEN num
                 ELSE LET n == ParseUnsigned(num.val, USIZE_MAX)
                      IN  IF ~IsOk(n) THEN Err(invalid_format_because(n.err, source))
                          ELSE IF i + 2 > Len(parts) THEN Ok(Meta(Page(n.val)))
                          ELSE Ok(Unknown(S_meta,
                                    Some(S_page \o <<Colon>> \o num.val \o <<Colon>>
                                         \o parts[i + 2] \o str_rest_from_parts(parts, i + 3))))
        ELSE Ok(Unknown(S_meta, Some(kind.val \o str_rest_from_parts(parts, i + 1))))

meta_from_src_parts(source, parts, i) ==
    LET kind == next_str_from_split(source, parts, i)
    IN  IF ~IsOk(kind) THEN kind
        ELSE IF kind.val = S_page
        THEN LET num == next_str_from_split(source, parts, i + 1)
             IN  IF ~IsOk(num) THEN num
                 ELSE LET n == ParseUnsigned(num.val, USIZE_MAX)
                      IN  IF ~IsOk(n) THEN Err(invalid_format_because(n.err, source))
                          ELSE IF i + 2 > Len(parts) THEN Ok(Meta(Page(n.val)))
                          ELSE Ok(Unknown(S_meta,
                                    Some(S_page \o <<Colon>> \o NumToString(n.val) \o <<Colon>>
                                         \o parts[i + 2] \o str_rest_from_parts(parts, i + 3))))
        ELSE Ok(Unknown(S_meta, Some(kind.val \o str_rest_from_parts(parts, i + 1))))

\* Faulty variant: the text fields are taken as written, without decoding.
local_from_src_parts_rawfields(source, parts, i) ==
    LET artist == next_str_from_split(source, parts, i)
        album_title == next_str_from_split(source, parts, i + 1)
        track_title == next_str_from_split(source, parts, i + 2)
        duration_s == next_str_from_split(source, parts, i + 3)
    IN  IF ~IsOk(artist) THEN artist
        ELSE IF ~IsOk(album_title) THEN album_title
        ELSE IF ~IsOk(track_title) THEN track_title
        ELSE IF ~IsOk(duration_s) THEN duration_s
        ELSE IF i + 4 > Len(parts)
        THEN LET d == ParseUnsigned(duration_s.val, U32_MAX)
             IN  IF ~IsOk(d) THEN Err(invalid_format_because(d.err, source))
                 ELSE Ok(Local(SpotifyLocalItem(artist.val, album_title.val, track_title.val, d.val)))
        ELSE Ok(Unknown(S_local,
                  Some(artist.val \o <<Colon>> \o album_title.val \o <<Colon>>
                       \o track_title.val \o <<Colon>> \o duration_s.val \o <<Colon>>
                       \o parts[i + 4] \o str_rest_from_parts(parts, i + 5))))

\* Faulty variant: the four fields are decoded before the fifth segment is
\* looked for, so a field that does not decode fails a longer input too.
local_from_src_parts_eager(source, parts, i) ==
    LET artist == next_str_from_split(source, parts, i)
        album_title == next_str_from_split(source, parts, i + 1)
        track_title == next_str_from_split(source, parts, i + 2)
        duration_s == next_str_from_split(source, parts, i + 3)
    IN  IF ~IsOk(artist) THEN artist
        ELSE IF ~IsOk(album_title) THEN album_title
        ELSE IF ~IsOk(track_title) THEN track_title
        ELSE IF ~IsOk(duration_s) THEN duration_s
        ELSE LET a == url_decode(source, artist.val)
                 b == url_decode(source, album_title.val)
                 t == url_decode(source, track_title.val)
                 d == ParseUnsigned(duration_s.val, U32_MAX)
             IN  IF ~IsOk(a) THEN a
                 ELSE IF ~IsOk(b) THEN b
                 ELSE IF ~IsOk(t) THEN t
                 ELSE IF ~IsOk(d) THEN Err(invalid_format_because(d.err, source))
                 ELSE IF i + 4 > Len(parts)
                 THEN Ok(Local(SpotifyLocalItem(a.val, b.val, t.val, d.val)))
                 ELSE Ok(Unknown(S_local,
                           Some(artist.val \o <<Colon>> \o album_title.val \o <<Colon>>
                                \o track_title.val \o <<Colon>> \o duration_s.val \o <<Colon>>
                                \o parts[i + 4] \o str_rest_from_parts(parts, i + 5))))

local_from_src_parts(source, parts, i) ==
    LET artist == next_str_from_split(source, parts, i)
        album_title == next_str_from_split(source, parts, i + 1)
        track_title == next_str_from_split(source, parts, i + 2)
        duration_s == next_str_from_split(source, parts, i + 3)
    IN  IF ~IsOk(artist) THEN artist
        ELSE IF ~IsOk(album_title) THEN album_title
        ELSE IF ~IsOk(track_title) THEN track_title
        ELSE IF ~IsOk(duration_s) THEN duration_s
        ELSE IF i + 4 > Len(parts)
        THEN LET a == url_decode(source, artist.val)
                 b == url_decode(source, album_title.val)
                 t == url_decode(source, track_title.val)
                 d == ParseUnsigned(duration_s.val, U32_MAX)
             IN  IF ~IsOk(a) THEN a
                 ELSE IF ~IsOk(b) THEN b
                 ELSE IF ~IsOk(t) THEN t
                 ELSE IF ~IsOk(d) THEN Err(invalid_format_because(d.err, source))
                 ELSE Ok(Local(SpotifyLocalItem(a.val, b.val, t.val, d.val)))
        ELSE Ok(Unknown(S_local,
                  Some(artist.val \o <<Colon>> \o album_title.val \o <<Colon>>
                       \o track_title.val \o <<Colon>> \o duration_s.val \o <<Colon>>
                       \o parts[i + 4] \o str_rest_from_parts(parts, i + 5))))

\* Faulty variant: the scheme is compared without regard to case.
try_from_ignorecase(source) ==
    LET parts == Split(source)
        scheme == next_str_from_split(source, parts, 1)
        word == next_str_from_split(source, parts, 2)
        lower == [k \in 1..Len(scheme.val) |->
                    IF scheme.val[k] \in 65..90 THEN scheme.val[k] + 32 ELSE scheme.val[k]]
    IN  IF ~IsOk(scheme) THEN scheme
        ELSE IF lower # S_spotify THEN Err(invalid_scheme(source))
        ELSE IF ~IsOk(word) THEN word
        ELSE IF word.val = S_user
        THEN LET user == next_str_from_split(source, parts, 3)
             IN  IF ~IsOk(user) THEN user
                 ELSE from_src_parts_inj(source, parts, 4, InjUser(user.val))
        ELSE IF word.val = S_station
        THEN from_src_parts_inj(source, parts, 3, InjStation)
        ELSE IF word.val = S_meta THEN meta_from_src_parts(source, parts, 3)
        ELSE IF word.val = S_local THEN local_from_src_parts(source, parts, 3)
        ELSE from_src_typ_parts_inj(source, word.val, parts, 3, InjItem)

\* impl TryFrom<&str> for SpotifyUri
try_from(source) ==
    LET parts == Split(source)
        scheme == next_str_from_split(source, parts, 1)
        word == next_str_from_split(source, parts, 2)
    IN  IF ~IsOk(scheme) THEN scheme
        ELSE IF scheme.val # S_spotify THEN Err(invalid_scheme(source))
        ELSE IF ~IsOk(word) THEN word
        ELSE IF word.val = S_user
        THEN LET user == next_str_from_split(source, parts, 3)
             IN  IF ~IsOk(user) THEN user
                 ELSE from_src_parts_inj(source, parts, 4, InjUser(user.val))
        ELSE IF word.val = S_station
        THEN from_src_parts_inj(source, parts, 3, InjStation)
        ELSE IF word.val = S_meta THEN meta_from_src_parts(source, parts, 3)
        ELSE IF word.val = S_local THEN local_from_src_parts(source, parts, 3)
        ELSE from_src_typ_parts_inj(source, word.val, parts, 3, InjItem)

----------------------------------------------------------------------------
(* impl fmt::Display for SpotifyUri *)

ItemToString(item) ==
    S_spotify \o <<Colon>> \o ItemTypeInto(item.item_type) \o <<Colon>> \o into_base62(item.id)

MetaToString(m) == S_spotify \o <<Colon>> \o S_meta \o <<Colon>> \o S_page \o <<Colon>> \o NumToString(m.page)

LocalToString(l) ==
    S_spotify \o <<Colon>> \o S_local \o <<Colon>> \o url_encode(l.artist) \o <<Colon>>
    \o url_encode(l.album_title) \o <<Colon>> \o url_encode(l.track_title) \o <<Colon>>
    \o NumToString(l.duration_s)

to_string(u) ==
    CASE u.tag = "Item" -> ItemToString(u.item)
      [] u.tag = "UserItem" ->
            S_spotify \o <<Colon>> \o S_user \o <<Colon>> \o u.user \o <<Colon>>
            \o ItemTypeInto(u.item.item_type) \o <<Colon>> \o into_base62(u.item.id)
      [] u.tag = "Station" ->
            S_spotify \o <<Colon>> \o S_station \o <<Colon>>
            \o ItemTypeInto(u.item.item_type) \o <<Colon>> \o into_base62(u.item.id)
      [] u.tag = "Meta" -> MetaToString(u.meta)
      [] u.tag = "Local" -> LocalToString(u.localitem)
      [] u.tag = "Unknown" ->
            S_spotify \o <<Colon>> \o u.typ
            \o (IF u.rest.some THEN <<Colon>> \o u.rest.val ELSE <<>>)

----------------------------------------------------------------------------
(* Inputs.  An input string is assembled from colon-free segments joined   *)
(* with ':'; the segments are kept in segs so that a property can speak of *)
(* "the second segment" without going through the parser's own split.      *)

\* How many further segments may follow a complete URI.
MaxTail == 2

\* Longest caller-supplied username / Unknown word / remainder of a value.
MaxStrLen == 2

\* Longest input handed to from_base16.
MaxHexLen == 33

\* "http"
W_http == <<104, 116, 116, 112>>

\* "Spotify"
W_Spotify == <<83, 112, 111, 116, 105, 102, 121>>

\* "spotif"
W_spotif == <<115, 112, 111, 116, 105, 102>>

\* "//example.net/"
W_example == <<47, 47, 101, 120, 97, 109, 112, 108, 101, 46, 110, 101, 116, 47>>

\* "unicorn"
W_unicorn == <<117, 110, 105, 99, 111, 114, 110>>

\* "Track"
W_Track == <<84, 114, 97, 99, 107>>

\* "name"
W_name == <<110, 97, 109, 101>>

\* "4GNcXTGWmnZ3ySrqvol3o4": a valid id (tests::ITEM_CONV_VALID)
ID_test == <<52, 71, 78, 99, 88, 84, 71, 87, 109, 110, 90, 51, 121, 83, 114, 113, 118, 111, 108, 51, 111, 52>>

\* "7N42dgm5tFLK9N8MT7fHC7": u128::MAX
ID_max == <<55, 78, 52, 50, 100, 103, 109, 53, 116, 70, 76, 75, 57, 78, 56, 77, 84, 55, 102, 72, 67, 55>>

\* "0000000000000000000000"
ID_zero == <<48, 48, 48, 48, 48, 48, 48, 48, 48, 48, 48, 48, 48, 48, 48, 48, 48, 48, 48, 48, 48, 48>>

\* "4GNcXTGWmnZ3ySrqvol3o": 21 characters
ID_short == <<52, 71, 78, 99, 88, 84, 71, 87, 109, 110, 90, 51, 121, 83, 114, 113, 118, 111, 108, 51, 111>>

\* "4GNcXTGWmnZ3ySrqvol3o45": 23 characters
ID_long == <<52, 71, 78, 99, 88, 84, 71, 87, 109, 110, 90, 51, 121, 83, 114, 113, 118, 111, 108, 51, 111, 52, 53>>

\* "4GNcXTGWmnZ3ySrqvol3o%": 22 characters, '%' is outside the alphabet
ID_badchar == <<52, 71, 78, 99, 88, 84, 71, 87, 109, 110, 90, 51, 121, 83, 114, 113, 118, 111, 108, 51, 111, 37>>

\* "7N42dgm5tFLK9N8MT7fHC8": u128::MAX + 1: 22 characters of the alphabet, not a u128
ID_overflow == <<55, 78, 52, 50, 100, 103, 109, 53, 116, 70, 76, 75, 57, 78, 56, 77, 84, 55, 102, 72, 67, 56>>

\* "2"
N_2 == <<50>>

\* "02"
N_02 == <<48, 50>>

\* "+2"
N_plus2 == <<43, 50>>

\* "-1"
N_minus1 == <<45, 49>>

\* "1."
N_dot == <<49, 46>>

\* "a"
N_a == <<97>>

\* "0"
N_0 == <<48>>

\* "18446744073709551615"
N_usize_max == <<49, 56, 52, 52, 54, 55, 52, 52, 48, 55, 51, 55, 48, 57, 53, 53, 49, 54, 49, 53>>

\* "18446744073709551616"
N_usize_over == <<49, 56, 52, 52, 54, 55, 52, 52, 48, 55, 51, 55, 48, 57, 53, 53, 49, 54, 49, 54>>

\* "4294967295"
N_u32_max == <<52, 50, 57, 52, 57, 54, 55, 50, 57, 53>>

\* "4294967296"
N_u32_over == <<52, 50, 57, 52, 57, 54, 55, 50, 57, 54>>

\* "123"
N_123 == <<49, 50, 51>>

\* "007"
N_007 == <<48, 48, 55>>

\* "abc"
F_abc == <<97, 98, 99>>

\* "Album%3a%20Sub+title": %3a is ':', %20 and '+' are spaces
F_mixed == <<65, 108, 98, 117, 109, 37, 51, 97, 37, 50, 48, 83, 117, 98, 43, 116, 105, 116, 108, 101>>

\* "%ff": decodes to the byte 0xff, which is not UTF-8
F_badutf8 == <<37, 102, 102>>

\* "100%": a '%' that starts no escape
F_plain_pct == <<49, 48, 48, 37>>

\* the id of ID_test
IdTest == <<154, 27, 28, 251, 198, 242, 68, 86, 154, 224, 53, 108, 119, 187, 233, 216>>

\* u128::MAX
IdMax == <<255, 255, 255, 255, 255, 255, 255, 255, 255, 255, 255, 255, 255, 255, 255, 255>>

\* 62^21, the least id whose base62 form has 22 digits
IdFirst22 == <<32, 219, 90, 228, 83, 169, 105, 11, 107, 240, 208, 183, 83, 224, 0, 0>>

\* 62^21 - 1, the greatest id whose base62 form has 21 digits
IdLast21 == <<32, 219, 90, 228, 83, 169, 105, 11, 107, 240, 208, 183, 83, 223, 255, 255>>

EmptyStr == <<>>

RECURSIVE SeqsUpTo(_, _)
SeqsUpTo(S, n) ==
    IF n = 0 THEN {<<>>}
    ELSE LET shorter == SeqsUpTo(S, n - 1)
         IN  shorter \cup {Append(t, w) : t \in shorter, w \in S}

RECURSIVE Concat(_)
Concat(ss) ==
    IF Len(ss) = 0 THEN <<>>
    ELSE IF Len(ss) = 1 THEN ss[1]
    ELSE Concat(SubSeq(ss, 1, Len(ss) - 1)) \o <<Colon>> \o ss[Len(ss)]

TailWords == {W_unicorn, EmptyStr, S_track}

Tails == SeqsUpTo(TailWords, MaxTail)

ItemTypeWords == {S_album, S_artist, S_episode, S_playlist, S_show, S_track}

ReservedWords == {S_user, S_station, S_meta, S_local} \cup ItemTypeWords

TypeWords == {S_track, S_album, S_episode, W_unicorn, W_Track, EmptyStr}

IdWords ==
    {ID_test, ID_max, ID_zero, ID_short, ID_long, ID_badchar, ID_overflow, EmptyStr, W_unicorn}

NumWords ==
    {N_2, N_02, N_plus2, N_minus1, N_dot, N_a, N_0, EmptyStr, N_usize_max, N_usize_over}

FieldWords == {F_abc, F_mixed, F_badutf8}

DurWords == {N_123, N_007, N_plus2, EmptyStr, N_a, N_u32_max, N_u32_over}

\* A type word, then possibly an id candidate and further segments.
ItemParts ==
    {<<t>> : t \in TypeWords}
    \cup {<<t, id>> \o tl : t \in TypeWords, id \in IdWords, tl \in Tails}

MetaParts ==
    {<<k>> : k \in {S_page, W_unicorn, EmptyStr}}
    \cup {<<k, n>> \o tl : k \in {S_page, W_unicorn, EmptyStr}, n \in NumWords, tl \in Tails}

LocalParts ==
    {<<>>, <<F_abc>>, <<F_abc, F_mixed>>, <<F_abc, F_mixed, F_abc>>}
    \cup {<<a, b, t, d>> \o tl :
            a \in FieldWords, b \in FieldWords, t \in FieldWords, d \in DurWords, tl \in Tails}

SegLists ==
    {<<S_spotify>>, <<S_spotify, S_user>>, <<S_spotify, S_station>>, <<S_spotify, S_meta>>}
    \cup {<<S_spotify>> \o p : p \in ItemParts}
    \cup {<<S_spotify, S_user, u>> : u \in {W_name, EmptyStr}}
    \cup {<<S_spotify, S_user, u>> \o p : u \in {W_name, EmptyStr}, p \in ItemParts}
    \cup {<<S_spotify, S_station>> \o p : p \in ItemParts}
    \cup {<<S_spotify, S_meta>> \o p : p \in MetaParts}
    \cup {<<S_spotify, S_local>> \o p : p \in LocalParts}
    \cup {<<s>> \o tl : s \in {W_http, W_Spotify, W_spotif, EmptyStr},
                        tl \in {<<>>, <<S_track, ID_test>>, <<W_unicorn>>, <<W_example>>,
                                <<S_spotify, S_track, ID_test>>}}

----------------------------------------------------------------------------
(* The parse / format pipeline on input strings *)

TypeOK ==
    /\ pc \in {"input", "parsed", "shown", "reparsed", "value", "asked", "hex", "decoded", "encoded",
              "spelled", "unescaped", "escaped", "unescaped again",
              "id", "base62", "from base62", "base16", "from base16",
              "text", "read", "written",
              "bytes", "id from buf", "buf", "file id", "file id shown"}
    /\ playable \in BOOLEAN

Init ==
    /\ pc = "input"
    /\ segs \in SegLists
    /\ src = Concat(segs)
    /\ res = NoRes
    /\ value = NoUri
    /\ text = <<>>
    /\ back = NoRes
    /\ playable = FALSE

\* SpotifyUri::try_from(src)
TryFrom ==
    /\ pc = "input"
    /\ res' = try_from(src)
    /\ pc' = "parsed"
    /\ UNCHANGED <<segs, src, value, text, back, playable>>

\* uri.to_string() on the parsed value
Display ==
    /\ pc = "parsed"
    /\ IsOk(res)
    /\ text' = to_string(res.val)
    /\ pc' = "shown"
    /\ UNCHANGED <<segs, src, res, value, back, playable>>

\* SpotifyUri::try_from(text) on the formatted string
Reparse ==
    /\ pc = "shown"
    /\ back' = try_from(text)
    /\ pc' = "reparsed"
    /\ UNCHANGED <<segs, src, res, value, text, playable>>

Next == TryFrom \/ Display \/ Reparse

Spec == Init /\ [][Next]_vars

----------------------------------------------------------------------------
(* Values built by a caller through the public enum, then formatted and    *)
(* parsed back, or asked whether they are playable                         *)

\* "x"
CharX == <<120>>

Strs == SeqsUpTo({CharX[1], Colon}, MaxStrLen)

Ids == {IdTest, IdMax, ZeroId, IdFirst22, IdLast21}

Items == {SpotifyItem(t, id) : t \in SpotifyItemType, id \in Ids}

Pages == {<<0>>, <<2>>, USIZE_MAX}

\* "Artist Name", "Album: Subtitle", "abc", "+%"
LocalTexts == {<<65, 114, 116, 105, 115, 116, 32, 78, 97, 109, 101>>, <<65, 108, 98, 117, 109, 58, 32, 83, 117, 98, 116, 105, 116, 108, 101>>, F_abc, <<Plus, Percent>>}

LocalItems ==
    {SpotifyLocalItem(a, al, tr, d) :
        a \in LocalTexts, al \in LocalTexts, tr \in LocalTexts, d \in {<<0>>, <<1, 2, 0>>, U32_MAX}}

UnknownWords == Strs \cup {W_unicorn, S_track, S_user, S_station, S_meta, S_local}

\* "page:2"
UnknownRests ==
    {None} \cup {Some(s) : s \in Strs \cup {W_unicorn, ID_test, <<112, 97, 103, 101, 58, 50>>}}

UriValues ==
    {Item(it) : it \in Items}
    \cup {UserItem(u, it) : u \in Strs \cup {W_name}, it \in Items}
    \cup {Station(it) : it \in Items}
    \cup {Meta(Page(n)) : n \in Pages}
    \cup {Local(l) : l \in LocalItems}
    \cup {Unknown(w, r) : w \in UnknownWords, r \in UnknownRests}

InitValue ==
    /\ pc = "value"
    /\ value \in UriValues
    /\ segs = <<>>
    /\ src = <<>>
    /\ res = NoRes
    /\ text = <<>>
    /\ back = NoRes
    /\ playable = FALSE

\* value.is_playable()
IsPlayable ==
    /\ pc = "value"
    /\ playable' = is_playable(value)
    /\ pc' = "asked"
    /\ UNCHANGED <<segs, src, res, value, text, back>>

\* value.to_string()
Format ==
    /\ pc = "value"
    /\ text' = to_string(value)
    /\ pc' = "shown"
    /\ UNCHANGED <<segs, src, res, value, back, playable>>

\* SpotifyUri::try_from(text)
TryFromText ==
    /\ pc = "shown"
    /\ back' = try_from(text)
    /\ pc' = "reparsed"
    /\ UNCHANGED <<segs, src, res, value, text, playable>>

NextValue == IsPlayable \/ Format \/ TryFromText

SpecValue == InitValue /\ [][NextValue]_vars

----------------------------------------------------------------------------
(* The id codecs on their own *)

\* '0' and 'f'
HexFill == {48, 102}

\* 'g', 'A', ' ' and '7'
HexOdd == {103, 65, Space, 55}

\* "9a1b1cfbc6f244569ae0356c77bbe9d8", the base16 form of IdTest
HEX_test == <<57, 97, 49, 98, 49, 99, 102, 98, 99, 54, 102, 50, 52, 52, 53, 54, 57, 97, 101, 48, 51, 53, 54, 99, 55, 55, 98, 98, 101, 57, 100, 56>>

HexInputs ==
    {HEX_test}
    \cup {Rep(c, n) : c \in HexFill, n \in 0..MaxHexLen}
    \cup UNION {{[Rep(c, n) EXCEPT ![p] = d] : c \in HexFill, d \in HexOdd, p \in 1..n} :
                    n \in 1..MaxHexLen}

InitId ==
    /\ pc = "hex"
    /\ src \in HexInputs
    /\ segs = <<>>
    /\ res = NoRes
    /\ value = NoUri
    /\ text = <<>>
    /\ back = NoRes
    /\ playable = FALSE

\* SpotifyId::from_base16(src)
FromBase16 ==
    /\ pc = "hex"
    /\ res' = from_base16(src)
    /\ pc' = "decoded"
    /\ UNCHANGED <<segs, src, value, text, back, playable>>

\* id.into_base16()
IntoBase16 ==
    /\ pc = "decoded"
    /\ IsOk(res)
    /\ text' = into_base16(res.val)
    /\ pc' = "encoded"
    /\ UNCHANGED <<segs, src, res, value, back, playable>>

NextId == FromBase16 \/ IntoBase16

SpecId == InitId /\ [][NextId]_vars

----------------------------------------------------------------------------
(* The percent/plus codec on its own: a field as it may be spelled in a    *)
(* local URI is decoded, the text is encoded again, and the encoding is    *)
(* decoded once more                                                       *)

\* How many units a spelled field is assembled from.
MaxUnits == 3

\* "a", "2", "B", "#", " ", "+", a stray "%", the control character 0x1f and
\* "é" as they may stand in a segment, and the escapes "%20", "%2B", "%2b",
\* "%25", "%3A", "%1F", "%C3", "%A9"
SpellUnits ==
    {<<97>>, <<50>>, <<66>>, <<35>>, <<Space>>, <<Plus>>, <<Percent>>, <<31>>, <<195, 169>>,
     <<Percent, 50, 48>>, <<Percent, 50, 66>>, <<Percent, 50, 98>>, <<Percent, 50, 53>>,
     <<Percent, 51, 65>>, <<Percent, 49, 70>>, <<Percent, 67, 51>>, <<Percent, 65, 57>>}

RECURSIVE Flatten(_)
Flatten(ss) == IF Len(ss) = 0 THEN <<>> ELSE ss[1] \o Flatten(Tail(ss))

Spellings == {Flatten(us) : us \in SeqsUpTo(SpellUnits, MaxUnits)}

InitCodec ==
    /\ pc = "spelled"
    /\ src \in Spellings
    /\ segs = <<>>
    /\ res = NoRes
    /\ value = NoUri
    /\ text = <<>>
    /\ back = NoRes
    /\ playable = FALSE

\* url_decode(src, src)
UrlDecode ==
    /\ pc = "spelled"
    /\ res' = url_decode(src, src)
    /\ pc' = "unescaped"
    /\ UNCHANGED <<segs, src, value, text, back, playable>>

\* url_encode(&s) on the decoded text
UrlEncode ==
    /\ pc = "unescaped"
    /\ IsOk(res)
    /\ text' = url_encode(res.val)
    /\ pc' = "escaped"
    /\ UNCHANGED <<segs, src, res, value, back, playable>>

\* url_decode(text, text) on the encoded text
UrlDecodeAgain ==
    /\ pc = "escaped"
    /\ back' = url_decode(text, text)
    /\ pc' = "unescaped again"
    /\ UNCHANGED <<segs, src, res, value, text, playable>>

NextCodec == UrlDecode \/ UrlEncode \/ UrlDecodeAgain

SpecCodec == InitCodec /\ [][NextCodec]_vars

----------------------------------------------------------------------------
(* An id value through its two text forms and back *)

SpotifyId(v) == [tag |-> "SpotifyId", id |-> v]

\* Ids with one byte set, besides the ids of the URI values.
IdValues == Ids \cup {[ZeroId EXCEPT ![p] = b] : p \in 1..SIZE, b \in {1, 255}}

InitIdValue ==
    /\ pc = "id"
    /\ value \in {SpotifyId(v) : v \in IdValues}
    /\ segs = <<>>
    /\ src = <<>>
    /\ res = NoRes
    /\ text = <<>>
    /\ back = NoRes
    /\ playable = FALSE

\* id.into_base62()
IdIntoBase62 ==
    /\ pc = "id"
    /\ text' = into_base62(value.id)
    /\ pc' = "base62"
    /\ UNCHANGED <<segs, src, res, value, back, playable>>

\* SpotifyId::from_base62(text)
IdFromBase62 ==
    /\ pc = "base62"
    /\ back' = from_base62(text)
    /\ pc' = "from base62"
    /\ UNCHANGED <<segs, src, res, value, text, playable>>

\* id.into_base16()
IdIntoBase16 ==
    /\ pc = "id"
    /\ text' = into_base16(value.id)
    /\ pc' = "base16"
    /\ UNCHANGED <<segs, src, res, value, back, playable>>

\* SpotifyId::from_base16(text)
IdFromBase16 ==
    /\ pc = "base16"
    /\ back' = from_base16(text)
    /\ pc' = "from base16"
    /\ UNCHANGED <<segs, src, res, value, text, playable>>

NextIdValue == IdIntoBase62 \/ IdFromBase62 \/ IdIntoBase16 \/ IdFromBase16

SpecIdValue == InitIdValue /\ [][NextIdValue]_vars

----------------------------------------------------------------------------
(* from_base62 on arbitrary strings *)

\* Longest run of one character handed to from_base62.
MaxB62Len == 23

\* '0', '7' and 'Z'
B62Fill == {48, 55, 90}

\* "%", " ", "-" and "é" (two bytes)
B62Odd == {<<Percent>>, <<Space>>, <<45>>, <<195, 169>>}

B62Inputs ==
    {ID_test, ID_max, ID_zero, ID_short, ID_long, ID_badchar, ID_overflow}
    \cup {Rep(c, n) : c \in B62Fill, n \in 0..MaxB62Len}
    \cup UNION {{Rep(c, p - 1) \o d \o Rep(c, n - p) : c \in B62Fill, d \in B62Odd, p \in 1..n} :
                    n \in 1..MaxB62Len}

InitId62 ==
    /\ pc = "text"
    /\ src \in B62Inputs
    /\ segs = <<>>
    /\ res = NoRes
    /\ value = NoUri
    /\ text = <<>>
    /\ back = NoRes
    /\ playable = FALSE

\* SpotifyId::from_base62(src)
FromBase62 ==
    /\ pc = "text"
    /\ res' = from_base62(src)
    /\ pc' = "read"
    /\ UNCHANGED <<segs, src, value, text, back, playable>>

\* id.into_base62() on the id that was read
IntoBase62 ==
    /\ pc = "read"
    /\ IsOk(res)
    /\ text' = into_base62(res.val)
    /\ pc' = "written"
    /\ UNCHANGED <<segs, src, res, value, back, playable>>

NextId62 == FromBase62 \/ IntoBase62

SpecId62 == InitId62 /\ [][NextId62]_vars

----------------------------------------------------------------------------
(* Ids built from raw byte slices *)

\* Longest byte slice handed to from_buf / from_raw.
MaxRawLen == 21

\* 0, 1, 2, .. as in tests::from_buf_invalid
Counting(n) == [i \in 1..n |-> i - 1]

ByteSlices ==
    {IdTest, IdMax, IdLast21}
    \cup {Counting(n) : n \in 0..MaxRawLen}
    \cup {Rep(c, n) : c \in {0, 255}, n \in 0..MaxRawLen}
    \cup {[Rep(0, n) EXCEPT ![n] = 1] : n \in 1..MaxRawLen}

InitBytes ==
    /\ pc = "bytes"
    /\ src \in ByteSlices
    /\ segs = <<>>
    /\ res = NoRes
    /\ value = NoUri
    /\ text = <<>>
    /\ back = NoRes
    /\ playable = FALSE

\* SpotifyId::from_buf(src)
FromBuf ==
    /\ pc = "bytes"
    /\ res' = from_buf(src)
    /\ pc' = "id from buf"
    /\ UNCHANGED <<segs, src, value, text, back, playable>>

\* id.into_buf()
IntoBuf ==
    /\ pc = "id from buf"
    /\ IsOk(res)
    /\ text' = into_buf(res.val)
    /\ pc' = "buf"
    /\ UNCHANGED <<segs, src, res, value, back, playable>>

\* FileId::from_raw(src)
FromRaw ==
    /\ pc = "bytes"
    /\ res' = from_raw(src)
    /\ pc' = "file id"
    /\ UNCHANGED <<segs, src, value, text, back, playable>>

\* FileId::from(src)
FileIdFrom ==
    /\ pc = "bytes"
    /\ res' = file_id_from(src)
    /\ pc' = "file id"
    /\ UNCHANGED <<segs, src, value, text, back, playable>>

\* file_id.into_base16()
FileIdIntoBase16 ==
    /\ pc = "file id"
    /\ IsOk(res)
    /\ text' = file_id_into_base16(res.val)
    /\ pc' = "file id shown"
    /\ UNCHANGED <<segs, src, res, value, back, playable>>

NextBytes == FromBuf \/ IntoBuf \/ FromRaw \/ FileIdFrom \/ FileIdIntoBase16

SpecBytes == InitBytes /\ [][NextBytes]_vars

----------------------------------------------------------------------------
(* Vocabulary of the properties *)

Base62Alphabet == (48..57) \cup (97..122) \cup (65..90)

\* A 22-character word of the alphabet whose value fits in 128 bits: as a
\* 22-digit base62 numeral it is not above that of u128::MAX.
ValidIdWord(s) ==
    /\ Len(s) = SIZE_BASE62
    /\ \A i \in 1..Len(s) : s[i] \in Base62Alphabet
    /\ ~DigitsGreater([i \in 1..Len(s) |-> Base62Digit(s[i])],
                      [i \in 1..Len(ID_max) |-> Base62Digit(ID_max[i])])

\* The ids behind the valid id words of the inputs.
ExpectedId(s) ==
    CASE s = ID_test -> IdTest
      [] s = ID_max -> IdMax
      [] s = ID_zero -> ZeroId

ExpectedItem(typ, id) ==
    SpotifyItem(CHOOSE t \in SpotifyItemType : ItemTypeInto(t) = typ, ExpectedId(id))

\* The raw segments from position k on, rejoined with ':'.
RawFrom(k) == Concat(SubSeq(segs, k, Len(segs)))

HasScheme == Len(segs) >= 2 /\ segs[1] = S_spotify

\* Where the type word of the item sub-grammar stands.
TypePos == IF segs[2] = S_user THEN 4 ELSE IF segs[2] = S_station THEN 3 ELSE 2

\* An optional '+' and then decimal digits only.
IsNumeral(x) ==
    LET d == IF x # <<>> /\ x[1] = Plus THEN Tail(x) ELSE x
    IN  d # <<>> /\ \A i \in 1..Len(d) : IsDigit(d[i])

\* Holds a character that is neither a digit nor a sign.
NonNumeric(x) == \E i \in 1..Len(x) : ~IsDigit(x[i]) /\ x[i] \notin {43, 45}

RECURSIVE StripZeros(_)
StripZeros(d) == IF Len(d) > 1 /\ d[1] = 0 THEN StripZeros(Tail(d)) ELSE d

\* The number a numeral denotes, as digits without leading zeros.
NumeralValue(x) ==
    LET d == IF x[1] = Plus THEN Tail(x) ELSE x
    IN  StripZeros([i \in 1..Len(d) |-> d[i] - 48])

----------------------------------------------------------------------------
(* C1.  For every SpotifyUri value u built from valid fields (Item,        *)
(* UserItem with any username, Station, Meta(Page(n)), Unknown(word,       *)
(* remainder) with any word and any remainder), parsing the string that    *)
(* formatting u produces succeeds and yields u: parse(format(u)) = u.      *)
C1_RoundTrip ==
    (pc = "reparsed" /\ value.tag \in {"Item", "UserItem", "Station", "Meta", "Unknown"})
        => back = Ok(value)

(* C2.  Every input the parser accepts as Unknown is preserved: formatting *)
(* the Unknown reproduces the input string character for character, in     *)
(* every degrading branch (plain word, user, station, meta, local).         *)
C2_UnknownLossless ==
    (pc = "shown" /\ res.val.tag = "Unknown") => text = src

(* C3.  Every hard failure of the URI parser returns an error that carries *)
(* the complete original input string, not just the offending segment.     *)
C3_ErrorCarriesInput ==
    (pc = "parsed" /\ IsErr(res)) => res.err.s = src

(* C4 as stated.  is_playable() is true exactly when the wrapped item type *)
(* is Track or Episode, identically for Item, UserItem and Station.        *)
C4_PlayableAnyWrapping ==
    (pc = "asked" /\ value.tag \in {"Item", "UserItem", "Station"})
        => playable = (value.item.item_type \in {"Track", "Episode"})

(* C4 as amended.  is_playable() is true exactly when the value is an Item *)
(* or a UserItem whose item type is Track or Episode; it is false for      *)
(* Album, Artist, Playlist and Show, and false for every Station whatever  *)
(* its item type (and for Meta, Local and Unknown).                        *)
C4_PlayableItemOrUserItem ==
    pc = "asked"
        => playable = (/\ value.tag \in {"Item", "UserItem"}
                       /\ value.item.item_type \in {"Track", "Episode"})

C4_Witness ==
    /\ pc = "asked"
    /\ value = Station(SpotifyItem("Track", IdTest))
    /\ playable = FALSE

(* C5.  from_base16 reports every failure as a returned error and never    *)
(* panics: an input whose length is not 32 yields InvalidIdSize(32,        *)
(* input), a 32-character input with a character that is no lowercase hex  *)
(* digit yields InvalidFormat, and only a 32-character lowercase-hex input *)
(* yields an id.                                                           *)
C5_FromBase16Total ==
    pc = "decoded"
        => /\ res.st # "panic"
           /\ Len(src) # SIZE_BASE16 => res = Err(invalid_id_size(SIZE_BASE16, src))
           /\ (Len(src) = SIZE_BASE16 /\ ~IsHexLower(src))
                => (IsErr(res) /\ res.err.kind = "InvalidFormat")
           /\ IsOk(res) => (Len(src) = SIZE_BASE16 /\ IsHexLower(src))

(* C6.  When the type word is one of the six item types and the segment    *)
(* after it is present but is no valid base62 id, the parse fails hard     *)
(* (InvalidIdSize for a length other than 22, InvalidFormat otherwise) and *)
(* never degrades to Unknown, however many segments follow; in the plain,  *)
(* the user and the station branch alike.                                  *)
C6_BadIdIsHardError ==
    (/\ pc = "parsed"
     /\ HasScheme
     /\ Len(segs) >= TypePos + 1
     /\ segs[TypePos] \in ItemTypeWords
     /\ ~ValidIdWord(segs[TypePos + 1]))
        => /\ IsErr(res)
           /\ res.err.kind = IF Len(segs[TypePos + 1]) # SIZE_BASE62
                             THEN "InvalidIdSize" ELSE "InvalidFormat"

C6_Witness ==
    /\ pc = "parsed"
    /\ segs = <<S_spotify, S_user, W_name, S_track, ID_overflow, W_unicorn, EmptyStr>>
    /\ IsErr(res)
    /\ res.err.kind = "InvalidFormat"

(* C7.  A recognized item-type word followed by a valid 22-character id    *)
(* and at least one further segment parses as Unknown carrying the type    *)
(* word and, as remainder, the raw id joined by ':' with all remaining raw *)
(* segments; with exactly type and id it yields the clean Item with that   *)
(* type and the decoded id.                                                *)
C7_TypeAndId ==
    (/\ pc = "parsed"
     /\ Len(segs) >= 3
     /\ segs[1] = S_spotify
     /\ segs[2] \in ItemTypeWords
     /\ ValidIdWord(segs[3]))
        => IF Len(segs) = 3
           THEN res = Ok(Item(ExpectedItem(segs[2], segs[3])))
           ELSE res = Ok(Unknown(segs[2], Some(RawFrom(3))))

C7_Witness ==
    /\ pc = "parsed"
    /\ segs = <<S_spotify, S_album, ID_test, W_unicorn, S_track>>
    /\ res = Ok(Unknown(S_album, Some(ID_test \o <<Colon>> \o W_unicorn \o <<Colon>> \o S_track)))

(* C8.  For a second segment W that is none of user, station, meta, local  *)
(* and the six item-type words (compared case-sensitively), the parse      *)
(* never fails and yields Unknown(W, r): r is None when no segment follows *)
(* W, otherwise Some of the remaining raw segments rejoined with ':', so   *)
(* one trailing colon gives Some("") and two give Some(":").               *)
C8_UnknownWord ==
    (pc = "parsed" /\ HasScheme /\ segs[2] \notin ReservedWords)
        => res = Ok(Unknown(segs[2], IF Len(segs) = 2 THEN None ELSE Some(RawFrom(3))))

C8_Witness ==
    /\ pc = "parsed"
    /\ segs = <<S_spotify, W_Track, EmptyStr, EmptyStr>>
    /\ res = Ok(Unknown(W_Track, Some(<<Colon>>)))

(* C9.  In the user and station branches a successful type+id sub-parse    *)
(* is wrapped as UserItem(username, item) or Station(item); every          *)
(* degradation of the sub-parse yields Unknown("user", Some(username ":"   *)
(* degraded)) or Unknown("station", Some(degraded)), the degraded          *)
(* remainder being the type word, followed by ':' and the raw remaining    *)
(* segments only when there are any.                                       *)
SubParseOk(k) ==
    Len(segs) = k + 1 /\ segs[k] \in ItemTypeWords /\ ValidIdWord(segs[k + 1])

SubParseDegrades(k) ==
    \/ segs[k] \notin ItemTypeWords
    \/ Len(segs) > k + 1 /\ ValidIdWord(segs[k + 1])

C9_UserAndStation ==
    pc = "parsed"
        => /\ (HasScheme /\ segs[2] = S_user /\ Len(segs) >= 4)
                => /\ SubParseOk(4)
                        => res = Ok(UserItem(segs[3], ExpectedItem(segs[4], segs[5])))
                   /\ SubParseDegrades(4)
                        => res = Ok(Unknown(S_user, Some(segs[3] \o <<Colon>> \o RawFrom(4))))
           /\ (HasScheme /\ segs[2] = S_station /\ Len(segs) >= 3)
                => /\ SubParseOk(3)
                        => res = Ok(Station(ExpectedItem(segs[3], segs[4])))
                   /\ SubParseDegrades(3)
                        => res = Ok(Unknown(S_station, Some(RawFrom(3))))

C9_Witness ==
    /\ pc = "parsed"
    /\ segs = <<S_spotify, S_user, W_name, W_unicorn, EmptyStr>>
    /\ res = Ok(Unknown(S_user, Some(W_name \o <<Colon>> \o W_unicorn \o <<Colon>>)))

(* C10.  For spotify:meta:page:<x>: if <x> is empty, non-numeric or too    *)
(* large for usize the whole parse fails with InvalidFormat and never      *)
(* degrades to Unknown, also when further segments follow; if <x> is a     *)
(* non-negative integer and no segment follows, the result is              *)
(* Meta(Page(x)).                                                          *)
C10_MetaPage ==
    (/\ pc = "parsed"
     /\ Len(segs) >= 4
     /\ segs[1] = S_spotify /\ segs[2] = S_meta /\ segs[3] = S_page)
        => /\ (\/ segs[4] = <<>>
               \/ NonNumeric(segs[4])
               \/ IsNumeral(segs[4]) /\ DigitsGreater(NumeralValue(segs[4]), USIZE_MAX))
                => (IsErr(res) /\ res.err.kind = "InvalidFormat")
           /\ (/\ IsNumeral(segs[4])
               /\ ~DigitsGreater(NumeralValue(segs[4]), USIZE_MAX)
               /\ Len(segs) = 4)
                => res = Ok(Meta(Page(NumeralValue(segs[4]))))

C10_Witness ==
    /\ pc = "parsed"
    /\ segs = <<S_spotify, S_meta, S_page, N_usize_over, W_unicorn>>
    /\ IsErr(res)
    /\ res.err.kind = "InvalidFormat"

(* C11.  In the meta branch a valid page number n followed by further      *)
(* segments yields Unknown("meta", Some("page:" decimal(n) ":" rest)),     *)
(* rest being the remaining raw segments rejoined with ':'; a third        *)
(* segment other than page yields Unknown("meta", Some(segment, followed   *)
(* by ':' and the raw remaining segments when there are any)).  Neither    *)
(* case is an error.                                                       *)
C11_MetaDegrades ==
    (/\ pc = "parsed"
     /\ Len(segs) >= 3
     /\ segs[1] = S_spotify /\ segs[2] = S_meta)
        => /\ (/\ segs[3] = S_page
               /\ Len(segs) >= 5
               /\ IsNumeral(segs[4])
               /\ ~DigitsGreater(NumeralValue(segs[4]), USIZE_MAX))
                => res = Ok(Unknown(S_meta,
                              Some(S_page \o <<Colon>> \o NumToString(NumeralValue(segs[4]))
                                   \o <<Colon>> \o RawFrom(5))))
           /\ segs[3] # S_page
                => res = Ok(Unknown(S_meta,
                              Some(segs[3] \o (IF Len(segs) > 3
                                               THEN <<Colon>> \o RawFrom(4) ELSE <<>>))))

C11_Witness ==
    /\ pc = "parsed"
    /\ segs = <<S_spotify, S_meta, S_page, N_02, W_unicorn, EmptyStr>>
    /\ res = Ok(Unknown(S_meta, Some(S_page \o <<Colon>> \o N_2 \o <<Colon>> \o W_unicorn \o <<Colon>>)))

(* C12.  For spotify:local followed by exactly four segments the parse     *)
(* yields Local(artist, album, track, duration), each text field decoded   *)
(* by the percent/plus codec and the duration parsed as an unsigned        *)
(* 32-bit integer; if a text field does not decode to UTF-8, or the        *)
(* duration is empty, non-numeric or beyond the unsigned 32-bit range,     *)
(* the whole parse fails with InvalidFormat.                               *)
DecodesToUtf8(x) == IsOk(url_decode(src, x))

Decoded(x) == url_decode(src, x).val

GoodDuration(x) == IsNumeral(x) /\ ~DigitsGreater(NumeralValue(x), U32_MAX)

BadDuration(x) ==
    \/ x = <<>>
    \/ NonNumeric(x)
    \/ IsNumeral(x) /\ DigitsGreater(NumeralValue(x), U32_MAX)

C12_LocalFour ==
    (/\ pc = "parsed"
     /\ Len(segs) = 6
     /\ segs[1] = S_spotify /\ segs[2] = S_local)
        => /\ (/\ \A k \in 3..5 : DecodesToUtf8(segs[k])
               /\ GoodDuration(segs[6]))
                => res = Ok(Local(SpotifyLocalItem(Decoded(segs[3]), Decoded(segs[4]),
                                                   Decoded(segs[5]), NumeralValue(segs[6]))))
           /\ ((\E k \in 3..5 : ~DecodesToUtf8(segs[k])) \/ BadDuration(segs[6]))
                => (IsErr(res) /\ res.err.kind = "InvalidFormat")

\* "Album: Sub title"
C12_Witness ==
    /\ pc = "parsed"
    /\ segs = <<S_spotify, S_local, F_abc, F_mixed, F_abc, N_007>>
    /\ res = Ok(Local(SpotifyLocalItem(F_abc,
                    <<65, 108, 98, 117, 109, 58, 32, 83, 117, 98, 32, 116, 105, 116, 108, 101>>,
                    F_abc, <<7>>)))

(* C13.  For spotify:local followed by five or more segments the parse is  *)
(* never an error: it yields Unknown("local", Some(r)), r being the first  *)
(* four segments as written, undecoded, joined by ':', then ':' and the    *)
(* remaining raw segments rejoined with ':' (one trailing colon after the  *)
(* duration gives r ending in ':').                                        *)
C13_LocalLong ==
    (/\ pc = "parsed"
     /\ Len(segs) >= 7
     /\ segs[1] = S_spotify /\ segs[2] = S_local)
        => res = Ok(Unknown(S_local, Some(RawFrom(3))))

C13_Witness ==
    /\ pc = "parsed"
    /\ segs = <<S_spotify, S_local, F_badutf8, F_mixed, F_abc, N_a, EmptyStr>>
    /\ res = Ok(Unknown(S_local,
                  Some(F_badutf8 \o <<Colon>> \o F_mixed \o <<Colon>> \o F_abc \o <<Colon>>
                       \o N_a \o <<Colon>>)))

(* C14.  The text codec of local items round-trips: decode(encode(s)) = s  *)
(* for every string s, where encode percent-encodes control characters,    *)
(* ':', '+' and '%' and then turns each space into '+', and decode turns   *)
(* each bare '+' into a space before percent-decoding, so that %2B decodes *)
(* to a literal '+' and both '+' and %20 decode to a space; differently    *)
(* spelled fields with the same text are therefore encoded to one          *)
(* normalized string.                                                      *)
IsControl(b) == b < 32 \/ b = 127

\* The encoded text holds no control character, ':' or space as such, and
\* every '%' in it starts an escape.
EscapedForm(s) ==
    \A i \in 1..Len(s) :
        /\ ~IsControl(s[i]) /\ s[i] \notin {Colon, Space}
        /\ s[i] = Percent
            => (i + 2 <= Len(s) /\ HexAnyVal(s[i + 1]) >= 0 /\ HexAnyVal(s[i + 2]) >= 0)

\* The text has a bare '+' exactly where s has a space.
PlusForSpace(s, enc) ==
    Cardinality({i \in 1..Len(enc) : enc[i] = Plus}) = Cardinality({i \in 1..Len(s) : s[i] = Space})

C14_CodecRoundTrip ==
    /\ pc = "unescaped again" => back = Ok(res.val)
    /\ pc \in {"escaped", "unescaped again"}
        => (EscapedForm(text) /\ PlusForSpace(res.val, text))
    /\ (pc # "spelled" /\ src = <<Percent, 50, 66>>) => res = Ok(<<Plus>>)
    /\ (pc # "spelled" /\ src \in {<<Plus>>, <<Percent, 50, 48>>, <<Space>>}) => res = Ok(<<Space>>)
    /\ (pc \in {"escaped", "unescaped again"} /\ src \in {<<Plus>>, <<Percent, 50, 48>>, <<Space>>})
        => text = <<Plus>>

\* "%2B+%25" decodes to "+ %" and is written back as it was
C14_Witness ==
    /\ pc = "unescaped again"
    /\ src = <<Percent, 50, 66, Plus, Percent, 50, 53>>
    /\ res = Ok(<<Plus, Space, Percent>>)
    /\ text = src
    /\ back = res

(* C15.  The first colon-separated segment of the input must be exactly    *)
(* "spotify": for an input whose first segment is anything else (the empty *)
(* string and inputs without a colon included) parsing fails with          *)
(* InvalidScheme carrying the original input, whatever the remaining       *)
(* segments are.                                                           *)
C15_SchemeRequired ==
    (pc = "parsed" /\ segs[1] # S_spotify) => res = Err(invalid_scheme(src))

C15_Witness ==
    /\ pc = "parsed"
    /\ segs = <<W_Spotify, S_track, ID_test>>
    /\ res = Err(invalid_scheme(W_Spotify \o <<Colon>> \o S_track \o <<Colon>> \o ID_test))

(* C16.  For every 128-bit value v, from_base62(into_base62(v)) = v and    *)
(* into_base62(v) has exactly 22 characters (zero-padded) of the base62    *)
(* alphabet; likewise from_base16(into_base16(v)) = v with exactly 32      *)
(* lowercase hex characters.                                               *)
C16_IdCodecsRoundTrip ==
    /\ pc \in {"base62", "from base62"}
        => (Len(text) = SIZE_BASE62 /\ \A i \in 1..Len(text) : text[i] \in Base62Alphabet)
    /\ pc = "from base62" => back = Ok(value.id)
    /\ pc \in {"base16", "from base16"} => (Len(text) = SIZE_BASE16 /\ IsHexLower(text))
    /\ pc = "from base16" => back = Ok(value.id)

(* C17 as stated.  from_base62 checks the length before decoding: an input *)
(* whose length is not 22 characters fails with InvalidIdSize(22, input)   *)
(* whatever its characters are, and a 22-character input that holds a      *)
(* character outside the base62 alphabet, or that decodes to a value that  *)
(* does not fit in 128 bits, fails with InvalidFormat carrying the input.  *)
CharLen(s) == Cardinality({i \in 1..Len(s) : s[i] \notin 128..191})

OutsideAlphabetOrTooLarge(s) ==
    \/ \E i \in 1..Len(s) : s[i] \notin Base62Alphabet
    \/ /\ Len(s) = SIZE_BASE62
       /\ DigitsGreater([i \in 1..Len(s) |-> Base62Digit(s[i])],
                        [i \in 1..Len(ID_max) |-> Base62Digit(ID_max[i])])

C17_LengthInCharacters ==
    pc = "read"
        => /\ CharLen(src) # SIZE_BASE62 => res = Err(invalid_id_size(SIZE_BASE62, src))
           /\ (CharLen(src) = SIZE_BASE62 /\ OutsideAlphabetOrTooLarge(src))
                => (IsErr(res) /\ res.err.kind = "InvalidFormat" /\ res.err.s = src)

(* C17 as amended.  The length from_base62 checks before decoding is the   *)
(* length in bytes of the UTF-8 input: an input that is not 22 bytes long  *)
(* fails with InvalidIdSize(22, input) whatever its characters are, and a  *)
(* 22-byte input that holds a character outside the base62 alphabet, or    *)
(* that decodes to a value that does not fit in 128 bits, fails with       *)
(* InvalidFormat carrying the input.                                       *)
C17_LengthBeforeDecode ==
    pc = "read"
        => /\ Len(src) # SIZE_BASE62 => res = Err(invalid_id_size(SIZE_BASE62, src))
           /\ (Len(src) = SIZE_BASE62 /\ OutsideAlphabetOrTooLarge(src))
                => (IsErr(res) /\ res.err.kind = "InvalidFormat" /\ res.err.s = src)

\* 21 characters, the last of them outside the alphabet
C17_Witness ==
    /\ pc = "read"
    /\ src = Rep(48, 20) \o <<Percent>>
    /\ res = Err(invalid_id_size(SIZE_BASE62, src))

(* C18.  from_buf accepts a byte slice exactly when it is 16 bytes long    *)
(* and reads it big-endian, so that into_buf(from_buf(b)) = b for every    *)
(* 16-byte b; a slice of any other length (empty, 15 or 17 bytes, ..)      *)
(* fails with InvalidIdBytes carrying exactly the rejected bytes.          *)
C18_FromBuf ==
    pc \in {"id from buf", "buf"}
        => /\ IsOk(res) <=> Len(src) = SIZE
           /\ Len(src) # SIZE => res = Err(invalid_id_bytes(src))
           /\ src = IdTest => res = from_base62(ID_test)
           /\ src = [ZeroId EXCEPT ![SIZE] = 1]
                => res = decode_alternative([ID_zero EXCEPT ![SIZE_BASE62] = 49])
           /\ pc = "buf" => text = src

C18_Witness ==
    /\ pc = "buf"
    /\ src = Counting(SIZE)
    /\ text = Counting(SIZE)

(* C19.  Building a FileId from a raw byte slice yields an id whose 20     *)
(* bytes are the slice when the slice is 20 bytes long, and for a slice of *)
(* any other length returns a recoverable length-mismatch error instead of *)
(* panicking or aborting.                                                  *)
C19_FileIdChecked ==
    pc \in {"file id", "file id shown"}
        => /\ res.st # "panic"
           /\ Len(src) = FILE_ID_SIZE => res = Ok(FileId(src))
           /\ Len(src) # FILE_ID_SIZE => IsErr(res)

(* C20.  Whenever a required segment is absent the parse fails with        *)
(* InvalidFormat("missing part", original input) and never yields          *)
(* Unknown: "spotify" with no second segment, user without a username or   *)
(* without a type word, station or meta without a third segment,           *)
(* meta:page without a number, local with fewer than four further          *)
(* segments, and a recognized item-type word (plain, under user or under   *)
(* station) with no id segment.                                            *)
RequiredSegmentAbsent ==
    /\ segs[1] = S_spotify
    /\ \/ Len(segs) = 1
       \/ segs[2] = S_user
            /\ (Len(segs) <= 3 \/ (Len(segs) = 4 /\ segs[4] \in ItemTypeWords))
       \/ segs[2] = S_station
            /\ (Len(segs) = 2 \/ (Len(segs) = 3 /\ segs[3] \in ItemTypeWords))
       \/ segs[2] = S_meta
            /\ (Len(segs) = 2 \/ (Len(segs) = 3 /\ segs[3] = S_page))
       \/ segs[2] = S_local /\ Len(segs) < 6
       \/ segs[2] \in ItemTypeWords /\ Len(segs) = 2

C20_MissingPart ==
    (pc = "parsed" /\ RequiredSegmentAbsent)
        => res = Err(invalid_format_because("missing part", src))

C20_Witness ==
    /\ pc = "parsed"
    /\ segs = <<S_spotify, S_user, W_name, S_track>>
    /\ res = Err(invalid_format_because("missing part",
                    S_spotify \o <<Colon>> \o S_user \o <<Colon>> \o W_name \o <<Colon>> \o S_track))

(* C21.  Formatting the result of a successful parse is a normal form:     *)
(* for every input s that parses to a value u, the string format(u) also   *)
(* parses, and to a value equal to u, so parse(format(parse(s))) =         *)
(* parse(s) for all variants, Local and every degraded Unknown included.   *)
C21_NormalForm ==
    pc = "reparsed" => back = res

====
